---- MODULE Spec2Model ----
(***************************************************************************)
(* Model of the 7TV emote search service (src/main.py).                    *)
(*                                                                         *)
(* One request to GET /7tv is one run of the state machine: the handler    *)
(* search_7tv_emotes parses twitch_id, fetches the global set or one set   *)
(* per channel identifier, ranks by name similarity, cuts to limit and     *)
(* normalises every remaining record.                                      *)
(*                                                                         *)
(* Python strings are sequences of one-character strings.  A dictionary    *)
(* value that may be missing is an optional: Absent (no such key), Null    *)
(* (the key holds None) or Val(v).                                         *)
(***************************************************************************)
EXTENDS Integers, Sequences, FiniteSets, TLC

VARIABLES
    name,        \* request parameter name: Null (None) or Val(string)
    twitch_id,   \* request parameter twitch_id: Null (None) or Val(string)
    limit,       \* request parameter limit: 0 stands for None, else 1..1000
    catalog,     \* what the remote 7TV service answers, per endpoint
    pc,          \* position of the handler
    twitch_ids,  \* local twitch_ids (line 54)
    idx,         \* position of the for loop of lines 60-61
    all_emotes,  \* local all_emotes
    i,           \* position of the for loop of lines 82-115
    results,     \* local results
    status,      \* "running", "ok" (the handler returned) or "error" (it raised)
    calls        \* the HTTP requests sent to the catalog, in order

vars == <<name, twitch_id, limit, catalog, pc, twitch_ids, idx, all_emotes,
          i, results, status, calls>>

-----------------------------------------------------------------------------
(* Optional values                                                         *)

Absent == [k |-> "absent"]
Null == [k |-> "null"]
Val(v) == [k |-> "val", v |-> v]

IsVal(o) == o.k = "val"

-----------------------------------------------------------------------------
(* Bounds of the model                                                     *)

MaxIdLen == 4
MaxEmotes == 3
MaxFiles == 3
MaxLimit == 2

(* Program constants                                                       *)

OverlayBit == 256

-----------------------------------------------------------------------------
(* Sequences                                                               *)

RECURSIVE SeqsUpTo(_, _)
SeqsUpTo(S, n) ==
    IF n = 0 THEN {<<>>}
    ELSE LET shorter == SeqsUpTo(S, n - 1)
         IN shorter \cup {Append(s, x) : s \in {t \in shorter : Len(t) = n - 1}, x \in S}

Last(s) == s[Len(s)]

Take(s, n) == SubSeq(s, 1, IF n < Len(s) THEN n ELSE Len(s))

RECURSIVE Concat(_)
Concat(ss) == IF ss = <<>> THEN <<>> ELSE Head(ss) \o Concat(Tail(ss))

Range(s) == {s[n] : n \in 1..Len(s)}

-----------------------------------------------------------------------------
(* Strings                                                                 *)

Whitespace == {" "}

\* str.strip(): leading and trailing whitespace removed.
RECURSIVE LStrip(_)
LStrip(s) == IF s # <<>> /\ Head(s) \in Whitespace THEN LStrip(Tail(s)) ELSE s

RECURSIVE RStrip(_)
RStrip(s) ==
    IF s # <<>> /\ Last(s) \in Whitespace THEN RStrip(SubSeq(s, 1, Len(s) - 1)) ELSE s

Strip(s) == RStrip(LStrip(s))

\* str.split(","): the pieces between the commas; no comma gives the one piece.
RECURSIVE Split(_)
Split(s) ==
    IF \A n \in 1..Len(s) : s[n] # ","
    THEN <<s>>
    ELSE LET p == CHOOSE n \in 1..Len(s) : s[n] = "," /\ \A m \in 1..(n - 1) : s[m] # ","
         IN <<SubSeq(s, 1, p - 1)>> \o Split(SubSeq(s, p + 1, Len(s)))

\* str.endswith(suffix)
EndsWith(s, suffix) ==
    /\ Len(s) >= Len(suffix)
    /\ SubSeq(s, Len(s) - Len(suffix) + 1, Len(s)) = suffix

\* str.lower() on the letters the model uses.
LowerChar(c) ==
    CASE c = "K" -> "k"
      [] c = "A" -> "a"
      [] c = "B" -> "b"
      [] c = "P" -> "p"
      [] c = "C" -> "c"
      [] OTHER -> c

Lower(s) == [n \in 1..Len(s) |-> LowerChar(s[n])]

\* str(None), as an f-string formats a missing value.
NoneText == <<"N", "o", "n", "e">>

DotGif == <<".", "g", "i", "f">>
DotWebp == <<".", "w", "e", "b", "p">>
Https == <<"h", "t", "t", "p", "s", ":">>
Slash == <<"/">>
Unknown == <<"u", "n", "k", "n", "o", "w", "n">>
Zero == <<"0">>

-----------------------------------------------------------------------------
(* difflib.SequenceMatcher(None, a, b).ratio()                             *)
(* No junk function is given and the automatic junk heuristic needs a      *)
(* second sequence of 200 elements or more, so every element counts.       *)
(* Ranges are 1-based and inclusive; alo > ahi is the empty range.         *)

Min(x, y) == IF x < y THEN x ELSE y

\* The blocks a[p .. p+k-1] = b[q .. q+k-1] inside the two ranges.
CommonBlocks(a, b, alo, ahi, blo, bhi) ==
    {m \in (alo..ahi) \X (blo..bhi) \X (1..Min(Len(a), Len(b))) :
        /\ m[1] + m[3] - 1 <= ahi
        /\ m[2] + m[3] - 1 <= bhi
        /\ \A d \in 0..(m[3] - 1) : a[m[1] + d] = b[m[2] + d]}

\* find_longest_match: the longest block; of those the one starting
\* earliest in a; of those the one starting earliest in b.
find_longest_match(a, b, alo, ahi, blo, bhi) ==
    LET blocks == CommonBlocks(a, b, alo, ahi, blo, bhi)
    IN IF blocks = {} THEN <<alo, blo, 0>>
       ELSE CHOOSE m \in blocks :
              \A o \in blocks :
                 \/ m[3] > o[3]
                 \/ m[3] = o[3] /\ m[1] < o[1]
                 \/ m[3] = o[3] /\ m[1] = o[1] /\ m[2] <= o[2]

\* get_matching_blocks, summed: the match, then the pieces left and right.
RECURSIVE MatchCount(_, _, _, _, _, _)
MatchCount(a, b, alo, ahi, blo, bhi) ==
    LET m == find_longest_match(a, b, alo, ahi, blo, bhi)
        p == m[1]
        q == m[2]
        k == m[3]
    IN IF k = 0 THEN 0
       ELSE k
            + (IF alo < p /\ blo < q
               THEN MatchCount(a, b, alo, p - 1, blo, q - 1) ELSE 0)
            + (IF p + k <= ahi /\ q + k <= bhi
               THEN MatchCount(a, b, p + k, ahi, q + k, bhi) ELSE 0)

\* ratio(): 2.0 * matches / length, and 1.0 when both are empty.  The float
\* is kept as the fraction <<numerator, denominator>>.
Ratio(a, b) ==
    LET length == Len(a) + Len(b)
    IN IF length # 0
       THEN <<2 * MatchCount(a, b, 1, Len(a), 1, Len(b)), length>>
       ELSE <<1, 1>>

ScoreGE(x, y) == x[1] * y[2] >= y[1] * x[2]
ScoreEQ(x, y) == x[1] * y[2] = y[1] * x[2]
ScoreGT(x, y) == x[1] * y[2] > y[1] * x[2]

-----------------------------------------------------------------------------
(* The ranking of lines 67-75                                              *)

\* dict.get(key, default): the default only when the key is missing.
Get(o, default) == IF o.k = "absent" THEN default ELSE o

\* _score(candidate), line 68-69
_score(candidate, query) == Ratio(Lower(candidate), Lower(query))

\* key=lambda e: _score(e.get("name", "")): a missing name scores as "".
KeyOf(e, query) == _score(Get(e.name, Val(<<>>)).v, query)

\* e.get("name", "") is None for a null name, and None.lower() raises.
KeyRaises(e) == e.name.k = "null"

\* Position of e in an already ranked list: behind every record whose score
\* is at least its own.
RECURSIVE InsertRanked(_, _, _)
InsertRanked(ranked, e, query) ==
    IF ranked = <<>> THEN <<e>>
    ELSE IF ScoreGE(KeyOf(Head(ranked), query), KeyOf(e, query))
         THEN <<Head(ranked)>> \o InsertRanked(Tail(ranked), e, query)
         ELSE <<e>> \o ranked

RECURSIVE RankFrom(_, _, _)
RankFrom(ranked, rest, query) ==
    IF rest = <<>> THEN ranked
    ELSE RankFrom(InsertRanked(ranked, Head(rest), query), Tail(rest), query)

\* A ranking that is descending but puts a record before the records of
\* equal score, as sorted(...)[::-1] of an ascending sort would.
RECURSIVE InsertBeforeTies(_, _, _)
InsertBeforeTies(ranked, e, query) ==
    IF ranked = <<>> THEN <<e>>
    ELSE IF ScoreGT(KeyOf(Head(ranked), query), KeyOf(e, query))
         THEN <<Head(ranked)>> \o InsertBeforeTies(Tail(ranked), e, query)
         ELSE <<e>> \o ranked

RECURSIVE RankBeforeTies(_, _, _)
RankBeforeTies(ranked, rest, query) ==
    IF rest = <<>> THEN ranked
    ELSE RankBeforeTies(InsertBeforeTies(ranked, Head(rest), query), Tail(rest), query)

SortedTiesReversed(emotes, query) == RankBeforeTies(<<>>, emotes, query)

\* A ranking without reverse=True: ascending and stable.
RECURSIVE InsertAscending(_, _, _)
InsertAscending(ranked, e, query) ==
    IF ranked = <<>> THEN <<e>>
    ELSE IF ScoreGE(KeyOf(e, query), KeyOf(Head(ranked), query))
         THEN <<Head(ranked)>> \o InsertAscending(Tail(ranked), e, query)
         ELSE <<e>> \o ranked

RECURSIVE RankAscending(_, _, _)
RankAscending(ranked, rest, query) ==
    IF rest = <<>> THEN ranked
    ELSE RankAscending(InsertAscending(ranked, Head(rest), query), Tail(rest), query)

SortedAscending(emotes, query) == RankAscending(<<>>, emotes, query)

\* sorted(all_emotes, key=..., reverse=True): descending, and stable also
\* under reverse=True.
SortedBySimilarity(emotes, query) == RankFrom(<<>>, emotes, query)

\* if name: (None and "" are false)
Truthy(o) == IsVal(o) /\ o.v # <<>>

\* Some key raises while sorted() computes the keys.
RankRaises(emotes, query) == Truthy(query) /\ \E n \in 1..Len(emotes) : KeyRaises(emotes[n])

\* A ranking under "if name is not None": the empty name ranks too.
RankedWheneverGiven(emotes, query) ==
    IF IsVal(query) THEN SortedBySimilarity(emotes, query.v) ELSE emotes

\* Lines 67-75: ranked when a name is given, else left as it is.
RankedList(emotes, query) ==
    IF Truthy(query) THEN SortedBySimilarity(emotes, query.v) ELSE emotes

\* Lines 78-79: if limit: all_emotes = all_emotes[:limit]
LimitedList(emotes, lim) == IF lim # 0 THEN Take(emotes, lim) ELSE emotes

-----------------------------------------------------------------------------
(* The source fetchers                                                     *)

\* A dict is true unless it is empty: an emote with no key at all is {}.
EmptyDict(e) == \A f \in DOMAIN e : e[f].k = "absent"

\* [e.get("data") for e in emotes if e.get("data")]
DataOf(items) ==
    LET kept == SelectSeq(items, LAMBDA e : IsVal(e.data) /\ ~EmptyDict(e.data.v))
    IN [n \in 1..Len(kept) |-> kept[n].data.v]

\* The answer of https://7tv.io/v3/users/twitch/{twitch_id}: an identifier
\* the catalog does not know is answered with an error status.
UserResponse(cat, tid) ==
    IF tid \in DOMAIN cat.users THEN cat.users[tid]
    ELSE [status |-> "http_error", emote_set |-> Absent]

\* How a Python call ends: it returns a value, or it raises.
Returns(v) == [raised |-> FALSE, value |-> v]
Raises == [raised |-> TRUE, value |-> <<>>]

\* The fetcher without its try/except: a failing source raises.
fetch_without_except(cat, tid) ==
    LET resp == IF tid \in DOMAIN cat.users THEN cat.users[tid]
                ELSE [status |-> "http_error", emote_set |-> Absent]
    IN IF resp.status # "ok" \/ resp.emote_set.k = "null" THEN Raises
       ELSE IF resp.emote_set.k = "absent" \/ resp.emote_set.v.emotes.k = "absent"
       THEN Returns(<<>>)
       ELSE IF resp.emote_set.v.emotes.k = "null" THEN Raises
       ELSE Returns(DataOf(resp.emote_set.v.emotes.v))

\* fetch_7tv_emotes_by_twitch_id, lines 15-25.  Every exception (the request,
\* raise_for_status, json(), a None where a dict or list is expected) ends in
\* the except branch, which returns [].
fetch_7tv_emotes_by_twitch_id(cat, tid) ==
    LET resp == UserResponse(cat, tid)
        emote_set == Get(resp.emote_set, Val([emotes |-> Absent]))
    IN IF resp.status # "ok" THEN Returns(<<>>)
       ELSE IF ~IsVal(emote_set) THEN Returns(<<>>)
       ELSE LET emotes == Get(emote_set.v.emotes, Val(<<>>))
            IN IF ~IsVal(emotes) THEN Returns(<<>>) ELSE Returns(DataOf(emotes.v))

\* fetch_7tv_global_emotes, lines 28-38
fetch_7tv_global_emotes(cat) ==
    LET resp == cat.global
        emotes == Get(resp.emotes, Val(<<>>))
    IN IF resp.status # "ok" THEN Returns(<<>>)
       ELSE IF ~IsVal(emotes) THEN Returns(<<>>) ELSE Returns(DataOf(emotes.v))

\* Line 54: the trimmed, non-empty pieces of (twitch_id or "").
ParseIds(param) ==
    LET text == IF Truthy(param) THEN param.v ELSE <<>>
        pieces == Split(text)
        kept == SelectSeq(pieces, LAMBDA tid : Strip(tid) # <<>>)
    IN [n \in 1..Len(kept) |-> Strip(kept[n])]

\* The selection with the "0" case forgotten.
UsesGlobalOnlyEmpty(ids) == ids = <<>>

\* The selection taking any "0" among the identifiers for the global set.
UsesGlobalAnyZero(ids) == ids = <<>> \/ Zero \in Range(ids)

\* Line 55
UsesGlobal(ids) == ids = <<>> \/ ids = <<Zero>>

-----------------------------------------------------------------------------
(* Normalisation of one record, lines 83-115                               *)

\* x or default
OrElse(o, default) == IF IsVal(o) /\ o.v # <<>> THEN o.v ELSE default

NoHost == [url |-> Absent, files |-> Absent]

\* host = emote.get("host") or {}
HostOf(emote) == IF IsVal(emote.host) THEN emote.host.v ELSE NoHost

\* files = host.get("files") or []
FilesOf(emote) == OrElse(HostOf(emote).files, <<>>)

\* [f["name"] for f in files if f["name"].endswith(suffix)]
NamesEnding(files, suffix) ==
    LET kept == SelectSeq(files, LAMBDA f : EndsWith(f.name.v, suffix))
    IN [n \in 1..Len(kept) |-> kept[n].name.v]

\* f["name"] raises KeyError without the key; None.endswith raises.
FilesRaise(files) == \E n \in 1..Len(files) : ~IsVal(files[n].name)

\* The selection taking the first file of a kind instead of the last.
ChosenFirstFile(files) ==
    LET gif_files == NamesEnding(files, DotGif)
        webp_files == NamesEnding(files, DotWebp)
    IN IF gif_files # <<>> THEN Head(gif_files)
       ELSE IF webp_files # <<>> THEN Head(webp_files)
       ELSE Last(files).name.v

\* Lines 91-99
ChosenFile(files) ==
    LET gif_files == NamesEnding(files, DotGif)
        webp_files == NamesEnding(files, DotWebp)
    IN IF gif_files # <<>> THEN Last(gif_files)
       ELSE IF webp_files # <<>> THEN Last(webp_files)
       ELSE Last(files).name.v

\* f"{x}"
Format(o) == IF IsVal(o) THEN o.v ELSE NoneText

\* Line 101
UrlOf(base, chosen_file) == Https \o Format(base) \o Slash \o chosen_file

\* x & y on non-negative integers
RECURSIVE BitAnd(_, _)
BitAnd(x, y) ==
    IF x = 0 \/ y = 0 THEN 0
    ELSE (x % 2) * (y % 2) + 2 * BitAnd(x \div 2, y \div 2)

\* The flag test as an equality: flags == 256.
IsOverlayExact(emote) == Get(emote.flags, Val(0)).v = OverlayBit

\* Lines 104-105: flags = emote.get("flags", 0); bool(flags & 256)
IsOverlay(emote) == BitAnd(Get(emote.flags, Val(0)).v, OverlayBit) # 0

\* None & 256 raises TypeError.
FlagsRaise(emote) == emote.flags.k = "null"

\* Line 108: emote.get("owner", {}).get("username", "unknown")
OwnerOf(emote) ==
    IF emote.owner.k = "absent" THEN Val(Unknown)
    ELSE LET username == Get(emote.owner.v.username, Val(Unknown))
         IN IF IsVal(username) THEN username ELSE Null

\* None.get raises AttributeError.
OwnerRaises(emote) == emote.owner.k = "null"

\* emote.get("name"): None when missing or null.
OutputName(emote) == IF IsVal(emote.name) THEN emote.name ELSE Null

\* Line 85: if not files: continue
Skipped(emote) == FilesOf(emote) = <<>>

\* One pass of the loop body raises.
NormalizeRaises(emote) ==
    /\ ~Skipped(emote)
    /\ \/ FilesRaise(FilesOf(emote))
       \/ FlagsRaise(emote)
       \/ OwnerRaises(emote)

\* Lines 110-115
OutputOf(emote) ==
    [name |-> OutputName(emote),
     url |-> UrlOf(HostOf(emote).url, ChosenFile(FilesOf(emote))),
     owner |-> OwnerOf(emote),
     is_overlay |-> IsOverlay(emote)]

-----------------------------------------------------------------------------
(* The handler search_7tv_emotes, lines 42-117                             *)

GlobalCall == [endpoint |-> "emote-sets/global", id |-> <<>>]
UserCall(tid) == [endpoint |-> "users/twitch", id |-> tid]

\* Lines 54-55
Parse ==
    /\ pc = "start"
    /\ twitch_ids' = ParseIds(twitch_id)
    /\ pc' = IF UsesGlobal(twitch_ids') THEN "global" ELSE "channels"
    /\ UNCHANGED <<name, twitch_id, limit, catalog, idx, all_emotes, i, results,
                   status, calls>>

\* Line 57
FetchGlobal ==
    /\ pc = "global"
    /\ LET call == fetch_7tv_global_emotes(catalog)
       IN /\ calls' = Append(calls, GlobalCall)
          /\ IF call.raised
             THEN /\ status' = "error"
                  /\ pc' = "done"
                  /\ UNCHANGED all_emotes
             ELSE /\ all_emotes' = call.value
                  /\ pc' = "check"
                  /\ UNCHANGED status
    /\ UNCHANGED <<name, twitch_id, limit, catalog, twitch_ids, idx, i, results>>

\* Lines 60-61, one identifier per step
FetchChannel ==
    /\ pc = "channels"
    /\ LET tid == twitch_ids[idx]
           call == fetch_7tv_emotes_by_twitch_id(catalog, tid)
       IN /\ calls' = Append(calls, UserCall(tid))
          /\ IF call.raised
             THEN /\ status' = "error"
                  /\ pc' = "done"
                  /\ UNCHANGED <<all_emotes, idx>>
             ELSE /\ all_emotes' = all_emotes \o call.value
                  /\ idx' = idx + 1
                  /\ pc' = IF idx = Len(twitch_ids) THEN "check" ELSE "channels"
                  /\ UNCHANGED status
    /\ UNCHANGED <<name, twitch_id, limit, catalog, twitch_ids, i, results>>

\* Lines 63-64
ReturnEmpty ==
    /\ pc = "check"
    /\ all_emotes = <<>>
    /\ results' = <<>>
    /\ status' = "ok"
    /\ pc' = "done"
    /\ UNCHANGED <<name, twitch_id, limit, catalog, twitch_ids, idx, all_emotes, i,
                   calls>>

\* Lines 67-75
Rank ==
    /\ pc = "check"
    /\ all_emotes # <<>>
    /\ IF RankRaises(all_emotes, name)
       THEN /\ status' = "error"
            /\ pc' = "done"
            /\ UNCHANGED all_emotes
       ELSE /\ all_emotes' = RankedList(all_emotes, name)
            /\ pc' = "limit"
            /\ UNCHANGED status
    /\ UNCHANGED <<name, twitch_id, limit, catalog, twitch_ids, idx, i, results,
                   calls>>

\* Lines 78-81
ApplyLimit ==
    /\ pc = "limit"
    /\ all_emotes' = LimitedList(all_emotes, limit)
    /\ results' = <<>>
    /\ i' = 1
    /\ pc' = "normalize"
    /\ UNCHANGED <<name, twitch_id, limit, catalog, twitch_ids, idx, status, calls>>

\* Lines 82-115, one record per step
NormalizeNext ==
    /\ pc = "normalize"
    /\ i <= Len(all_emotes)
    /\ LET emote == all_emotes[i]
       IN IF Skipped(emote)
          THEN /\ i' = i + 1
               /\ UNCHANGED <<results, status, pc>>
          ELSE IF NormalizeRaises(emote)
          THEN /\ status' = "error"
               /\ pc' = "done"
               /\ UNCHANGED <<results, i>>
          ELSE /\ results' = Append(results, OutputOf(emote))
               /\ i' = i + 1
               /\ UNCHANGED <<status, pc>>
    /\ UNCHANGED <<name, twitch_id, limit, catalog, twitch_ids, idx, all_emotes,
                   calls>>

\* Line 117
Return ==
    /\ pc = "normalize"
    /\ i > Len(all_emotes)
    /\ status' = "ok"
    /\ pc' = "done"
    /\ UNCHANGED <<name, twitch_id, limit, catalog, twitch_ids, idx, all_emotes, i,
                   results, calls>>

Next ==
    \/ Parse
    \/ FetchGlobal
    \/ FetchChannel
    \/ ReturnEmpty
    \/ Rank
    \/ ApplyLimit
    \/ NormalizeNext
    \/ Return

-----------------------------------------------------------------------------
(* Requests and catalog contents the model starts from                     *)

Emote(nm, host, flags, owner) ==
    [name |-> nm, host |-> host, flags |-> flags, owner |-> owner]

File(nm) == [name |-> Val(nm)]
Host(url, files) == Val([url |-> url, files |-> Val(files)])
Owner(username) == Val([username |-> username])
Item(emote) == [data |-> Val(emote)]

Items(emotes) == [n \in 1..Len(emotes) |-> Item(emotes[n])]
GlobalOk(emotes) == [status |-> "ok", emotes |-> Val(Items(emotes))]
UserOk(emotes) == [status |-> "ok", emote_set |-> Val([emotes |-> Val(Items(emotes))])]
Failed(how) == [status |-> how, emotes |-> Absent, emote_set |-> Absent]

Ka == <<"K", "a">>
Kappa == <<"K", "a", "p", "p", "a">>
Kappb == <<"K", "a", "p", "p", "b">>
PogChamp == <<"P", "o", "g", "C", "h", "a", "m", "p">>
Bob == <<"b", "o", "b">>
Cdn == <<"/", "/", "c", "/", "e">>

Gif1 == <<"1", ".", "g", "i", "f">>
Gif2 == <<"2", ".", "g", "i", "f">>
Webp1 == <<"1", ".", "w", "e", "b", "p">>
Webp2 == <<"2", ".", "w", "e", "b", "p">>
Avif1 == <<"1", ".", "a", "v", "i", "f">>
NoDotGif == <<"g", "i", "f">>
X1Avif == <<"1", "x", ".", "a", "v", "i", "f">>
X2Avif == <<"2", "x", ".", "a", "v", "i", "f">>
X1Gif == <<"1", "x", ".", "g", "i", "f">>
X2Gif == <<"2", "x", ".", "g", "i", "f">>
X1Webp == <<"1", "x", ".", "w", "e", "b", "p">>
X2Webp == <<"2", "x", ".", "w", "e", "b", "p">>

GoodHost == Host(Val(Cdn), <<File(Webp1), File(Gif1)>>)
NoFilesHost == Host(Val(Cdn), <<>>)

\* An emote that shows: a host with files, flags and an owner.
Shown(nm) == Emote(Val(nm), GoodHost, Val(0), Owner(Val(Bob)))
\* An emote that cannot be shown.
Hidden(nm) == Emote(Val(nm), Absent, Val(0), Absent)

EmptyEmote == Emote(Absent, Absent, Absent, Absent)

EmoteA == Shown(Ka)
EmoteB == Emote(Val(<<"k">>), GoodHost, Val(OverlayBit), Absent)
EmoteG == Emote(Val(Kappa), GoodHost, Absent, Owner(Absent))
EmoteZ == Emote(Val(<<"a">>), NoFilesHost, Val(1), Owner(Null))

Id1 == <<"1">>
Id11 == <<"1", "1">>

BaseCatalog ==
    [global |-> [status |-> "ok",
                 emotes |-> Val(<<Item(EmoteG), [data |-> Absent], Item(EmptyEmote),
                                  [data |-> Null], Item(EmoteB)>>)],
     users |-> (Id1 :> UserOk(<<EmoteA, EmoteB>>))
               @@ (Zero :> UserOk(<<EmoteZ>>))
               @@ (Id11 :> Failed("timeout"))]

FailingCatalog ==
    [global |-> Failed("timeout"),
     users |-> (Id1 :> Failed("bad_json"))
               @@ (Zero :> [status |-> "ok", emote_set |-> Null])
               @@ (Id11 :> UserOk(<<EmoteB, EmoteA>>))]

SparseCatalog ==
    [global |-> [status |-> "ok", emotes |-> Null],
     users |-> (Id1 :> [status |-> "ok", emote_set |-> Val([emotes |-> Null])])
               @@ (Zero :> UserOk(<<EmoteZ, EmoteA>>))
               @@ (Id11 :> Failed("network"))]

GlobalOnly(emotes) ==
    [global |-> GlobalOk(emotes), users |-> (Id1 :> UserOk(<<EmoteA, EmoteB>>))]

Scenario(q, t, l, c) == [name |-> q, twitch_id |-> t, limit |-> l, catalog |-> c]

\* A few requests that take every path of the handler.
BaseScenarios ==
    {Scenario(Null, Val(<<"1", ",", "0">>), 0, BaseCatalog),
     Scenario(Val(Ka), Val(<<"7">>), 1, BaseCatalog),
     Scenario(Val(<<"k">>), Null, 1, BaseCatalog)}

\* twitch_id parameters
IdChars == {"0", "1", ",", " "}
IdParams == {Null} \cup {Val(t) : t \in SeqsUpTo(IdChars, MaxIdLen)}
IdScenarios ==
    {Scenario(Null, t, 0, c) :
        t \in IdParams, c \in {BaseCatalog, FailingCatalog, SparseCatalog}}

\* names, limits and lists to rank
RankEmotes ==
    {Shown(Ka), Shown(<<"k">>), Shown(<<"a">>), Hidden(Ka), Hidden(<<"k">>),
     Hidden(<<"a">>), Emote(Absent, GoodHost, Val(0), Absent),
     Emote(Absent, NoFilesHost, Val(0), Absent)}
Queries == {Null, Val(<<>>), Val(<<"k", "A">>), Val(<<"a">>)}
RankScenarios ==
    {Scenario(q, Null, l, GlobalOnly(es)) :
        q \in Queries, l \in 0..MaxLimit, es \in SeqsUpTo(RankEmotes, MaxEmotes)}
    \cup {Scenario(Val(Kappa), Val(Zero), 1,
                   GlobalOnly(<<Shown(Kappb), Shown(PogChamp), Shown(Kappa)>>))}
    \cup BaseScenarios

\* file lists and flags
FileNames == {Gif1, Gif2, Webp1, Webp2, Avif1, NoDotGif}
FileLists ==
    {[n \in 1..Len(fs) |-> File(fs[n])] : fs \in SeqsUpTo(FileNames, MaxFiles)}
    \cup {<<File(X1Avif), File(X2Avif), File(X1Gif), File(X2Gif), File(X1Webp)>>,
          <<File(X1Avif), File(X2Webp)>>,
          <<File(X1Avif)>>}
FlagValues == {Absent, Val(0), Val(1), Val(255), Val(256), Val(257), Val(511),
               Val(512), Val(768)}
VariantScenarios ==
    {Scenario(Null, Null, 0,
              GlobalOnly(<<Emote(Val(Ka), Host(u, fs), fl, Absent)>>)) :
        u \in {Val(Cdn), Absent}, fs \in FileLists, fl \in FlagValues}
    \cup BaseScenarios

\* records that do not have the assumed shape
BrokenEmotes ==
    {Emote(Null, GoodHost, Val(0), Absent),
     Emote(Val(Ka), GoodHost, Null, Absent),
     Emote(Val(Ka), GoodHost, Val(0), Null),
     Emote(Val(Ka), Host(Val(Cdn), <<[name |-> Absent]>>), Val(0), Absent),
     Emote(Val(Ka), Host(Val(Cdn), <<File(Gif1), [name |-> Null]>>), Val(0), Absent),
     Emote(Null, Null, Null, Null),
     Emote(Val(Ka), Val([url |-> Null, files |-> Null]), Val(0), Absent),
     Emote(Val(Ka), Val([url |-> Absent, files |-> Absent]), Absent, Absent)}
MalformedScenarios ==
    {Scenario(q, Null, l, GlobalOnly(es)) :
        q \in {Null, Val(Ka)}, l \in {0, 1},
        es \in SeqsUpTo(BrokenEmotes \cup {EmoteA, EmoteB}, 2)}
    \cup BaseScenarios

\* The state when the handler is entered.
InitFrom(scenarios) ==
    /\ \E sc \in scenarios :
          /\ name = sc.name
          /\ twitch_id = sc.twitch_id
          /\ limit = sc.limit
          /\ catalog = sc.catalog
    /\ pc = "start"
    /\ twitch_ids = <<>>
    /\ idx = 1
    /\ all_emotes = <<>>
    /\ i = 1
    /\ results = <<>>
    /\ status = "running"
    /\ calls = <<>>

Init == InitFrom(IdScenarios \cup RankScenarios \cup VariantScenarios
                 \cup MalformedScenarios)

Spec == Init /\ [][Next]_vars
SpecIds == InitFrom(IdScenarios) /\ [][Next]_vars
SpecRank == InitFrom(RankScenarios) /\ [][Next]_vars
SpecVariant == InitFrom(VariantScenarios) /\ [][Next]_vars
SpecMalformed == InitFrom(MalformedScenarios) /\ [][Next]_vars

-----------------------------------------------------------------------------
(* What the claims speak of                                                *)

AfterFetch == pc \in {"check", "limit", "normalize", "done"}
Returned == pc = "done" /\ status = "ok"

\* Lines 54-61 as one computation: the aggregate list of a request.
AggregateOf(param, cat) ==
    LET ids == ParseIds(param)
    IN IF UsesGlobal(ids) THEN fetch_7tv_global_emotes(cat).value
       ELSE Concat([n \in 1..Len(ids) |->
                       fetch_7tv_emotes_by_twitch_id(cat, ids[n]).value])

Aggregated == AggregateOf(twitch_id, catalog)

\* A record a URL can be built for: a host with at least one file.
HasFiles(e) ==
    /\ IsVal(e.host)
    /\ IsVal(e.host.v.files)
    /\ e.host.v.files.v # <<>>

ShownOf(emotes) == SelectSeq(emotes, HasFiles)

NamesOf(emotes) == [n \in 1..Len(emotes) |-> OutputName(emotes[n])]
ResultNames == [n \in 1..Len(results) |-> results[n].name]

\* The text of the twitch_id parameter.
IdText == IF IsVal(twitch_id) THEN twitch_id.v ELSE <<>>

\* The identifier list, read off the text without the code's split and
\* strip: the pieces between neighbouring commas, each cut down to the span
\* from its first to its last non-blank character, blank pieces left out.
Cuts(s) == {0, Len(s) + 1} \cup {n \in 1..Len(s) : s[n] = ","}
CutAt(s, k) == CHOOSE c \in Cuts(s) : Cardinality({x \in Cuts(s) : x < c}) = k - 1
PieceAt(s, k) == SubSeq(s, CutAt(s, k) + 1, CutAt(s, k + 1) - 1)
Blank(t) == \A n \in 1..Len(t) : t[n] = " "
Trimmed(t) ==
    LET inked == {n \in 1..Len(t) : t[n] # " "}
        first == CHOOSE n \in inked : \A m \in inked : n <= m
        last == CHOOSE n \in inked : \A m \in inked : n >= m
    IN SubSeq(t, first, last)
IdentifierList(s) ==
    LET pieces == [k \in 1..(Cardinality(Cuts(s)) - 1) |-> PieceAt(s, k)]
        inked == SelectSeq(pieces, LAMBDA t : ~Blank(t))
    IN [n \in 1..Len(inked) |-> Trimmed(inked[n])]

\* A source whose fetch fails: the request or its status fails, or the body
\* is not the JSON the fetcher expects.
SourceFails(tid) ==
    LET resp == UserResponse(catalog, tid)
    IN \/ resp.status # "ok"
       \/ resp.emote_set.k = "null"
       \/ IsVal(resp.emote_set) /\ resp.emote_set.v.emotes.k = "null"

\* The records a source that succeeds holds.
SourceRecords(tid) ==
    LET resp == UserResponse(catalog, tid)
    IN IF SourceFails(tid) \/ ~IsVal(resp.emote_set)
          \/ ~IsVal(resp.emote_set.v.emotes)
       THEN <<>>
       ELSE DataOf(resp.emote_set.v.emotes.v)

\* The score of a name that may be missing.
NameScore(nm, query) == _score(IF IsVal(nm) THEN nm.v ELSE <<>>, query)

Bijections(n) ==
    {f \in [1..n -> 1..n] : \A j, k \in 1..n : f[j] = f[k] => j = k}

\* out is src in descending score order, records of equal score in the
\* order they have in src.
IsStableRanking(src, out, query) ==
    /\ Len(out) = Len(src)
    /\ \E f \in Bijections(Len(src)) :
          /\ \A k \in 1..Len(src) : out[k] = src[f[k]]
          /\ \A j, k \in 1..Len(src) :
                j < k =>
                  \/ ScoreGT(NameScore(out[j].name, query), NameScore(out[k].name, query))
                  \/ /\ ScoreEQ(NameScore(out[j].name, query),
                                NameScore(out[k].name, query))
                     /\ f[j] < f[k]

\* The file the selection rule names: the last .gif, else the last .webp,
\* else the last file.
LastEnding(files, suffix) ==
    LET at == {n \in 1..Len(files) : EndsWith(files[n].name.v, suffix)}
    IN IF at = {} THEN 0 ELSE CHOOSE n \in at : \A m \in at : m <= n
RuleChoice(files) ==
    IF LastEnding(files, DotGif) # 0 THEN files[LastEnding(files, DotGif)].name.v
    ELSE IF LastEnding(files, DotWebp) # 0 THEN files[LastEnding(files, DotWebp)].name.v
    ELSE files[Len(files)].name.v

\* Bit 256 of a flags value, by division.
Bit256(flags) == (flags \div 256) % 2 = 1

-----------------------------------------------------------------------------
(* Claims                                                                  *)

\* C1: with a limit L the results are the first L renderable records of the
\* ranked aggregate list, so their number is min(L, renderable records).
C1_LimitCountsOnlyRenderable ==
    (Returned /\ limit # 0) =>
        LET shown == ShownOf(RankedList(Aggregated, name))
        IN /\ Len(results) = Min(limit, Len(shown))
           /\ ResultNames = NamesOf(Take(shown, limit))

\* C2: whatever the catalog returns, the handler ends in a success response
\* and never in an error; a malformed record removes only itself.
C2_NeverAnError == pc = "done" => status = "ok"

\* C3: a failing source contributes the empty list and nothing else: every
\* identifier is still fetched, the aggregate holds exactly the records of
\* the sources that succeeded, and the request ends in a response with
\* those records, not in an error.
C3_FailedSourceOnlyEmpty ==
    LET expected == Concat([n \in 1..Len(twitch_ids) |-> SourceRecords(twitch_ids[n])])
    IN /\ pc = "done" => status = "ok"
       /\ (AfterFetch /\ ~UsesGlobal(twitch_ids)) =>
             calls = [n \in 1..Len(twitch_ids) |-> UserCall(twitch_ids[n])]
       /\ (pc = "check" /\ ~UsesGlobal(twitch_ids)) => all_emotes = expected
       /\ (Returned /\ ~UsesGlobal(twitch_ids) /\ ~Truthy(name) /\ limit = 0) =>
             ResultNames = NamesOf(ShownOf(expected))

C3_Witness ==
    /\ Returned
    /\ Len(twitch_ids) = 2
    /\ ~SourceFails(twitch_ids[1])
    /\ SourceFails(twitch_ids[2])
    /\ Len(calls) = 2
    /\ Len(results) = 2

\* C4: an identifier list that is empty or exactly ["0"] makes the handler
\* call the global source exactly once and the per-channel fetcher never.
C4_GlobalSourceOnly ==
    (IdentifierList(IdText) = <<>> \/ IdentifierList(IdText) = <<Zero>>) =>
        /\ \A n \in 1..Len(calls) : calls[n] = GlobalCall
        /\ Len(calls) <= 1
        /\ AfterFetch => calls = <<GlobalCall>>

C4_Witness ==
    /\ pc = "done"
    /\ Len(IdText) = 3
    /\ IdentifierList(IdText) = <<Zero>>
    /\ calls = <<GlobalCall>>

\* C5: any other identifier list is fetched per channel, once per
\* occurrence and in input order, never from the global source, and the
\* aggregate list is the per-identifier results concatenated in that order.
C5_OncePerIdentifierInOrder ==
    LET ids == IdentifierList(IdText)
        wanted == [n \in 1..Len(ids) |-> UserCall(ids[n])]
    IN (ids # <<>> /\ ids # <<Zero>>) =>
          /\ Len(calls) <= Len(wanted)
          /\ calls = SubSeq(wanted, 1, Len(calls))
          /\ AfterFetch => calls = wanted
          /\ pc = "check" =>
                all_emotes = Concat([n \in 1..Len(ids) |->
                                 fetch_7tv_emotes_by_twitch_id(catalog, ids[n]).value])

C5_Witness ==
    /\ pc = "done"
    /\ calls = <<UserCall(Zero), UserCall(Zero)>>
    /\ Len(all_emotes) = 4

\* C6: with a non-empty name the ranked list is the aggregate list in
\* descending score order, records of equal score keeping their aggregation
\* order, and ranking the ranked list again changes nothing.
C6_StableDescendingRanking ==
    (pc = "limit" /\ Truthy(name)) =>
        /\ IsStableRanking(Aggregated, all_emotes, name.v)
        /\ RankedList(all_emotes, name) = all_emotes

C6_Witness ==
    /\ pc = "limit"
    /\ Truthy(name)
    /\ Len(all_emotes) = 3
    /\ all_emotes # Aggregated
    /\ all_emotes[2] # all_emotes[3]
    /\ ScoreEQ(NameScore(all_emotes[2].name, name.v),
               NameScore(all_emotes[3].name, name.v))

\* C7: the cut comes after the ranking: every renderable record of the
\* aggregate that scores higher than some returned record is returned too.
C7_CapKeepsTopRanked ==
    (Returned /\ Truthy(name)) =>
        \A n \in 1..Len(results) :
           LET Better(nm) == ScoreGT(NameScore(nm, name.v),
                                     NameScore(results[n].name, name.v))
               shown == ShownOf(Aggregated)
           IN Cardinality({m \in 1..Len(shown) : Better(shown[m].name)})
              = Cardinality({m \in 1..Len(results) : Better(results[m].name)})

C7_Witness ==
    /\ Returned
    /\ name = Val(Kappa)
    /\ limit = 1
    /\ NamesOf(Aggregated) = <<Val(Kappb), Val(PogChamp), Val(Kappa)>>
    /\ ResultNames = <<Val(Kappa)>>

\* C8: the chosen file is the last .gif if there is one, else the last
\* .webp if there is one, else the last file, and the URL is
\* "https:" + host.url + "/" + chosen name.
C8_VariantSelection ==
    Returned =>
        LET shown == ShownOf(all_emotes)
        IN /\ Len(results) = Len(shown)
           /\ \A n \in 1..Len(shown) :
                 IsVal(shown[n].host.v.url) =>
                    results[n].url = Https \o shown[n].host.v.url.v \o Slash
                                     \o RuleChoice(shown[n].host.v.files.v)

C8_Witness ==
    /\ Returned
    /\ Len(results) = 1
    /\ Len(ShownOf(all_emotes)[1].host.v.files.v) = 5
    /\ results[1].url = Https \o Cdn \o Slash \o X2Gif

\* C9: without a name (absent or empty) nothing is reordered: the result
\* names are those of the aggregate list, cut to the limit and without the
\* unrenderable records, in aggregation order.
C9_NoNameKeepsOrder ==
    (Returned /\ ~Truthy(name)) =>
        ResultNames = NamesOf(ShownOf(IF limit = 0 THEN Aggregated
                                      ELSE Take(Aggregated, limit)))

C9_Witness ==
    /\ Returned
    /\ name = Val(<<>>)
    /\ ResultNames = <<Val(Ka), Null, Val(<<"a">>)>>

\* C10: is_overlay is true exactly when bit 256 of flags is set, whatever
\* the other bits, and a missing flags field counts as 0.
C10_OverlayBit ==
    Returned =>
        LET shown == ShownOf(all_emotes)
        IN /\ Len(results) = Len(shown)
           /\ \A n \in 1..Len(shown) :
                 results[n].is_overlay =
                    IF shown[n].flags = Absent THEN FALSE
                    ELSE Bit256(shown[n].flags.v)

C10_Witness ==
    /\ Returned
    /\ Len(results) = 1
    /\ ShownOf(all_emotes)[1].flags = Val(257)
    /\ results[1].is_overlay

====
